---- MODULE Spec2Model ----
(***************************************************************************)
(* Model of two pieces of ruma:                                            *)
(*   - ruma-identifiers-validation/src/device_key_id.rs  (validate)        *)
(*   - ruma-serde/src/canonical_json/value.rs  (CanonicalJsonValue)        *)
(* Text is modelled as sequences of bytes (UTF-8), numbers as decimal      *)
(* digit sequences, so that truncation, ordering and formatting are        *)
(* computed rather than assumed.                                           *)
(***************************************************************************)
EXTENDS Integers, Sequences, FiniteSets, TLC

VARIABLES
    pc,        \* position of the modelled caller
    s,         \* validate: the input string (bytes)
    other,     \* validate: a second input agreeing with s up to the first ':'
    result,    \* validate(s)
    result2,   \* validate(other)
    doc,       \* canonical json: the source document (deserializer event tree)
    json,      \* canonical json: the generic JsonValue tree
    canon,     \* canonical json: result of try_from(json)
    text,      \* canonical json: result of Display::fmt
    back       \* canonical json: result of deserializing text again

vars == <<pc, s, other, result, result2, doc, json, canon, text, back>>

(***************************************************************************)
(* Bounds of the model.                                                    *)
(***************************************************************************)
MaxOver == 8      \* padding lengths reach U8Mod + MaxOver bytes
MaxLen == 2       \* longest array / object entry list at the innermost level
MaxDepth == 2     \* nesting depth of containers

(***************************************************************************)
(* Bytes.                                                                  *)
(***************************************************************************)
Colon == 58       \* ':'
U8Mod == 256      \* `as u8` keeps the value modulo 2^8

Ed25519 == <<101, 100, 50, 53, 53, 49, 57>>         \* "ed25519"
UnknownAlg == <<117, 110, 107>>                     \* "unk"
EAcute == <<195, 169>>                              \* U+00E9, two bytes
Euro == <<226, 130, 172>>                           \* U+20AC, three bytes

None == [some |-> FALSE, v |-> 0]
Some(n) == [some |-> TRUE, v |-> n]

(***************************************************************************)
(* device_key_id.rs                                                        *)
(***************************************************************************)

\* str::find(':') : byte offset (0-based) of the first ':' or None.
find(str, b) ==
    IF \E i \in 1..Len(str) : str[i] = b
    THEN Some((CHOOSE i \in 1..Len(str) :
                  /\ str[i] = b
                  /\ \A j \in 1..(i - 1) : str[j] # b) - 1)
    ELSE None

\* usize as u8
AsU8(n) == n % U8Mod

\* NonZeroU8::new
NonZeroU8New(n) == IF n = 0 THEN None ELSE Some(n)

\* str::is_char_boundary : offset n does not fall on a UTF-8 continuation byte
is_char_boundary(str, n) ==
    \/ n = 0
    \/ n = Len(str)
    \/ /\ n < Len(str)
       /\ ~(str[n + 1] \in 128..191)

\* The key algorithm recognizer (DeviceKeyAlgorithm::from_str).
RecognizedNames == {Ed25519}

from_str(name) == name \in RecognizedNames

Ok(n) == [kind |-> "Ok", offset |-> n]
Err(e) == [kind |-> e, offset |-> 0]
Panic == [kind |-> "Panic", offset |-> 0]
NotCalled == [kind |-> "NotCalled", offset |-> 0]

\* &str[0..n] : panics unless n is inside the string and on a char boundary
SliceTo(str, n) ==
    IF n <= Len(str) /\ is_char_boundary(str, n)
    THEN [ok |-> TRUE, v |-> SubSeq(str, 1, n)]
    ELSE [ok |-> FALSE, v |-> <<>>]

\* validate with the zero offset reported as a missing delimiter
validate_zero_is_missing(str) ==
    LET found == find(str, Colon) IN
    IF ~found.some THEN Err("MissingKeyDelimiter")
    ELSE LET colon_idx == NonZeroU8New(AsU8(found.v)) IN
         IF ~colon_idx.some THEN Err("MissingKeyDelimiter")
         ELSE LET name == SliceTo(str, colon_idx.v) IN
              IF ~name.ok THEN Panic
              ELSE IF ~from_str(name.v) THEN Err("UnknownKeyAlgorithm")
              ELSE Ok(colon_idx.v)

\* validate that also insists on a key id after the delimiter
validate_checks_key_id(str) ==
    LET found == find(str, Colon) IN
    IF ~found.some THEN Err("MissingKeyDelimiter")
    ELSE LET colon_idx == NonZeroU8New(AsU8(found.v)) IN
         IF ~colon_idx.some THEN Err("UnknownKeyAlgorithm")
         ELSE LET name == SliceTo(str, colon_idx.v) IN
              IF ~name.ok THEN Panic
              ELSE IF ~from_str(name.v) THEN Err("UnknownKeyAlgorithm")
              ELSE IF found.v + 1 = Len(str) THEN Err("InvalidKeyVersion")
              ELSE Ok(colon_idx.v)

validate(str) ==
    LET found == find(str, Colon) IN
    IF ~found.some THEN Err("MissingKeyDelimiter")
    ELSE LET colon_idx == NonZeroU8New(AsU8(found.v)) IN
         IF ~colon_idx.some THEN Err("UnknownKeyAlgorithm")
         ELSE LET name == SliceTo(str, colon_idx.v) IN
              IF ~name.ok THEN Panic
              ELSE IF ~from_str(name.v) THEN Err("UnknownKeyAlgorithm")
              ELSE Ok(colon_idx.v)

(***************************************************************************)
(* Inputs of validate: head ++ padding ++ [":"] ++ tail.                   *)
(***************************************************************************)
\* n bytes "a"
Pad(n) == [i \in 1..n |-> 97]

Heads == {<<>>, Ed25519, UnknownAlg, EAcute, Euro, Ed25519 \o EAcute}
PadLens == (0..2) \cup ((U8Mod - 8)..(U8Mod + MaxOver))
Tails == {<<>>, <<65>>, <<Colon, 66>>, EAcute}

Prefixes == {h \o Pad(n) : h \in Heads, n \in PadLens}
Inputs == {p \o t : p \in Prefixes, t \in {<<>>, <<Colon>>}}

\* str up to and including its first ':' (all of str when there is none)
UpToColon(str) ==
    LET f == find(str, Colon) IN
    IF f.some THEN SubSeq(str, 1, f.v + 1) ELSE str

HasColon(str) == \E i \in 1..Len(str) : str[i] = Colon

\* the byte offset of the first ':' computed without truncation
FirstColon(str) == CHOOSE n \in 0..(Len(str) - 1) :
                      /\ str[n + 1] = Colon
                      /\ \A j \in 1..n : str[j] # Colon

(***************************************************************************)
(* canonical_json/value.rs : values                                        *)
(*                                                                         *)
(* A serde_json::Number is PosInt(u64), NegInt(i64 < 0) or Float(f64).     *)
(* It is held as sign, decimal digits of the integer part and decimal      *)
(* digits of the fractional part (empty when the value is integral).       *)
(***************************************************************************)
MaxSafeInt == <<9,0,0,7,1,9,9,2,5,4,7,4,0,9,9,1>>               \* 2^53 - 1
I64Max == <<9,2,2,3,3,7,2,0,3,6,8,5,4,7,7,5,8,0,7>>             \* 2^63 - 1
I64MinMag == <<9,2,2,3,3,7,2,0,3,6,8,5,4,7,7,5,8,0,8>>          \* 2^63
U64Max == <<1,8,4,4,6,7,4,4,0,7,3,7,0,9,5,5,1,6,1,5>>           \* 2^64 - 1

\* a < b on byte / digit sequences, lexicographically (Ord for str and [u8])
LexLess(a, b) ==
    \E i \in 1..(Len(b)) :
        /\ i <= Len(a) + 1
        /\ \A j \in 1..(i - 1) : a[j] = b[j]
        /\ (i = Len(a) + 1 \/ a[i] < b[i])

\* a <= b on magnitudes written without leading zeros
MagLeq(a, b) ==
    \/ Len(a) < Len(b)
    \/ Len(a) = Len(b) /\ (a = b \/ LexLess(a, b))

PosInt(d) == [k |-> "PosInt", neg |-> FALSE, int |-> d, frac |-> <<>>]
NegInt(d) == [k |-> "NegInt", neg |-> TRUE, int |-> d, frac |-> <<>>]
Float(sign, d, f) == [k |-> "Float", neg |-> sign, int |-> d, frac |-> f]

JNull == [t |-> "Null"]
JBool(b) == [t |-> "Bool", b |-> b]
JNumber(n) == [t |-> "Number", n |-> n]
JString(str) == [t |-> "String", str |-> str]
JArray(items) == [t |-> "Array", items |-> items]
JObject(entries) == [t |-> "Object", entries |-> entries]

\* CanonicalJsonValue::Integer(Int)
CInteger(sign, mag) == [t |-> "Integer", neg |-> sign, mag |-> mag]

\* serde_json::Number::as_i64
as_i64(n) ==
    IF n.k = "PosInt"
    THEN IF MagLeq(n.int, I64Max)
         THEN [some |-> TRUE, neg |-> FALSE, mag |-> n.int]
         ELSE [some |-> FALSE, neg |-> FALSE, mag |-> <<0>>]
    ELSE IF n.k = "NegInt"
    THEN [some |-> TRUE, neg |-> TRUE, mag |-> n.int]
    ELSE [some |-> FALSE, neg |-> FALSE, mag |-> <<0>>]

\* Int::try_from accepting the whole i64 range
IntTryFrom_any_i64(v) == MagLeq(v.mag, I64MinMag)

\* js_int: Int::try_from(i64), MIN_SAFE_INT <= v <= MAX_SAFE_INT
IntTryFrom(v) == MagLeq(v.mag, MaxSafeInt)

ConvOk(v) == [ok |-> TRUE, v |-> v, err |-> "none"]
ConvErr(e) == [ok |-> FALSE, v |-> JNull, err |-> e]

\* an insert that keeps insertion order instead of key order
BTreeInsert_unordered(m, key, val) ==
    Append(SelectSeq(m, LAMBDA e : e[1] # key), <<key, val>>)

\* BTreeMap::insert on a map held as its entries in ascending key order
BTreeInsert(m, key, val) ==
    LET lower == SelectSeq(m, LAMBDA e : LexLess(e[1], key))
        upper == SelectSeq(m, LAMBDA e : LexLess(key, e[1]))
    IN lower \o <<<<key, val>>>> \o upper

\* JsonValue::Number arm of try_from
NumberTryFrom(n) ==
    LET i == as_i64(n) IN
    IF ~i.some THEN ConvErr("IntConvert")
    ELSE IF ~IntTryFrom(i) THEN ConvErr("IntConvert")
    ELSE ConvOk(CInteger(i.neg, i.mag))

RECURSIVE try_from(_)
RECURSIVE CollectVec(_)
RECURSIVE CollectMap(_, _)

\* collecting that drops the elements that fail instead of aborting
CollectVec_skip_failures(items) ==
    IF items = <<>> THEN ConvOk(<<>>)
    ELSE LET h == try_from(Head(items))
             r == CollectVec(Tail(items))
         IN IF ~r.ok THEN ConvErr(r.err)
            ELSE IF ~h.ok THEN ConvOk(r.v)
            ELSE ConvOk(<<h.v>> \o r.v)

\* collecting that pushes each element in front of the earlier ones
CollectVec_reversed(items) ==
    IF items = <<>> THEN ConvOk(<<>>)
    ELSE LET h == try_from(Head(items)) IN
         IF ~h.ok THEN ConvErr(h.err)
         ELSE LET r == CollectVec(Tail(items)) IN
              IF ~r.ok THEN ConvErr(r.err)
              ELSE ConvOk(r.v \o <<h.v>>)

\* vec.into_iter().map(TryInto::try_into).collect::<Result<Vec<_>, _>>()
CollectVec(items) ==
    IF items = <<>> THEN ConvOk(<<>>)
    ELSE LET h == try_from(Head(items)) IN
         IF ~h.ok THEN ConvErr(h.err)
         ELSE LET r == CollectVec(Tail(items)) IN
              IF ~r.ok THEN ConvErr(r.err)
              ELSE ConvOk(<<h.v>> \o r.v)

\* obj.into_iter().map(|(k, v)| Ok((k, v.try_into()?))).collect::<Result<BTreeMap<_, _>, _>>()
CollectMap(entries, acc) ==
    IF entries = <<>> THEN ConvOk(acc)
    ELSE LET e == Head(entries)
             c == try_from(e[2])
         IN IF ~c.ok THEN ConvErr(c.err)
            ELSE CollectMap(Tail(entries), BTreeInsert(acc, e[1], c.v))

try_from(j) ==
    IF j.t = "Bool" THEN ConvOk(JBool(j.b))
    ELSE IF j.t = "Number" THEN NumberTryFrom(j.n)
    ELSE IF j.t = "Array"
    THEN LET r == CollectVec(j.items) IN
         IF r.ok THEN ConvOk(JArray(r.v)) ELSE ConvErr(r.err)
    ELSE IF j.t = "String" THEN ConvOk(JString(j.str))
    ELSE IF j.t = "Object"
    THEN LET r == CollectMap(j.entries, <<>>) IN
         IF r.ok THEN ConvOk(JObject(r.v)) ELSE ConvErr(r.err)
    ELSE ConvOk(JNull)

(***************************************************************************)
(* canonical_json/value.rs : rendering (Serialize driven by                *)
(* serde_json::to_string, the compact formatter).                          *)
(***************************************************************************)
RECURSIVE EscapeStr(_)
\* serde_json's string escaping, for the bytes the model draws strings from:
\* '"' and '\' get a backslash, newline becomes \n, the rest is copied.
EscapeStr(str) ==
    IF str = <<>> THEN <<>>
    ELSE LET c == Head(str) IN
         (IF c = 34 THEN <<92, 34>>
          ELSE IF c = 92 THEN <<92, 92>>
          ELSE IF c = 10 THEN <<92, 110>>
          ELSE <<c>>) \o EscapeStr(Tail(str))

\* serialize_str
WriteStr(str) == <<34>> \o EscapeStr(str) \o <<34>>

\* Int::serialize -> serialize_i64 : optional '-' and the decimal digits
WriteInt(sign, mag) ==
    (IF sign THEN <<45>> ELSE <<>>) \o [i \in 1..Len(mag) |-> 48 + mag[i]]

RECURSIVE serialize(_)
RECURSIVE WriteSeq(_, _)
RECURSIVE WriteMap(_, _)

\* Vec::serialize : elements in stored order, ',' between them
WriteSeq(items, first) ==
    IF items = <<>> THEN <<>>
    ELSE (IF first THEN <<>> ELSE <<44>>)
         \o serialize(Head(items)) \o WriteSeq(Tail(items), FALSE)

\* for (k, v) in m { map.serialize_entry(k, v)?; }
WriteMap(entries, first) ==
    IF entries = <<>> THEN <<>>
    ELSE (IF first THEN <<>> ELSE <<44>>)
         \o WriteStr(Head(entries)[1]) \o <<58>> \o serialize(Head(entries)[2])
         \o WriteMap(Tail(entries), FALSE)

\* serialize writing an Integer as a JSON string of its digits
serialize_integer_as_string(v) ==
    IF v.t = "Null" THEN <<110, 117, 108, 108>>
    ELSE IF v.t = "Bool"
    THEN (IF v.b THEN <<116, 114, 117, 101>> ELSE <<102, 97, 108, 115, 101>>)
    ELSE IF v.t = "Integer" THEN WriteStr(WriteInt(v.neg, v.mag))
    ELSE IF v.t = "String" THEN WriteStr(v.str)
    ELSE IF v.t = "Array" THEN <<91>> \o WriteSeq(v.items, TRUE) \o <<93>>
    ELSE <<123>> \o WriteMap(v.entries, TRUE) \o <<125>>

serialize(v) ==
    IF v.t = "Null" THEN <<110, 117, 108, 108>>
    ELSE IF v.t = "Bool"
    THEN (IF v.b THEN <<116, 114, 117, 101>> ELSE <<102, 97, 108, 115, 101>>)
    ELSE IF v.t = "Integer" THEN WriteInt(v.neg, v.mag)
    ELSE IF v.t = "String" THEN WriteStr(v.str)
    ELSE IF v.t = "Array" THEN <<91>> \o WriteSeq(v.items, TRUE) \o <<93>>
    ELSE <<123>> \o WriteMap(v.entries, TRUE) \o <<125>>

\* Display::fmt : write!(f, "{}", to_json_string(&self)?)
fmt(v) == serialize(v)

(***************************************************************************)
(* Reading JSON text (serde_json's reader, as used by                      *)
(* JsonValue::deserialize).  The reader yields the document as it is       *)
(* written: object entries in text order, repeated keys included.          *)
(***************************************************************************)
PRes(v, pos) == [ok |-> TRUE, v |-> v, pos |-> pos]
PFail == [ok |-> FALSE, v |-> JNull, pos |-> 0]

IsWs(b) == b \in {32, 9, 10, 13}
IsDigit(b) == b \in 48..57

RECURSIVE SkipWs(_, _)
SkipWs(txt, i) ==
    IF i <= Len(txt) /\ IsWs(txt[i]) THEN SkipWs(txt, i + 1) ELSE i

StartsWith(txt, i, lit) ==
    /\ i + Len(lit) - 1 <= Len(txt)
    /\ SubSeq(txt, i, i + Len(lit) - 1) = lit

RECURSIVE ParseChars(_, _, _)
\* the characters of a string after its opening quote
ParseChars(txt, i, acc) ==
    IF i > Len(txt) THEN PFail
    ELSE IF txt[i] = 34 THEN PRes(acc, i + 1)
    ELSE IF txt[i] = 92
    THEN IF i + 1 > Len(txt) THEN PFail
         ELSE IF txt[i + 1] \in {34, 92, 47}
              THEN ParseChars(txt, i + 2, Append(acc, txt[i + 1]))
         ELSE IF txt[i + 1] = 110 THEN ParseChars(txt, i + 2, Append(acc, 10))
         ELSE IF txt[i + 1] = 116 THEN ParseChars(txt, i + 2, Append(acc, 9))
         ELSE IF txt[i + 1] = 114 THEN ParseChars(txt, i + 2, Append(acc, 13))
         ELSE PFail
    ELSE IF txt[i] < 32 THEN PFail
    ELSE ParseChars(txt, i + 1, Append(acc, txt[i]))

RECURSIVE DigitsEnd(_, _)
\* first position at or after i that is not a digit
DigitsEnd(txt, i) ==
    IF i <= Len(txt) /\ IsDigit(txt[i]) THEN DigitsEnd(txt, i + 1) ELSE i

DigitsOf(txt, i, j) == [n \in 1..(j - i) |-> txt[i + n - 1] - 48]

RECURSIVE StripZeros(_)
\* trailing zeros of a fraction carry no value
StripZeros(d) ==
    IF d # <<>> /\ d[Len(d)] = 0 THEN StripZeros(SubSeq(d, 1, Len(d) - 1)) ELSE d

\* serde_json's number reader without exponents: an integer literal becomes
\* PosInt / NegInt when it fits u64 / i64, anything else (a fraction, "-0",
\* an integer too large) becomes Float.
ParseNumber(txt, i) ==
    LET sign == (txt[i] = 45)
        st == IF sign THEN i + 1 ELSE i
        en == DigitsEnd(txt, st)
        mag == DigitsOf(txt, st, en)
    IN IF en = st THEN PFail
       ELSE IF en - st > 1 /\ txt[st] = 48 THEN PFail
       ELSE IF en <= Len(txt) /\ txt[en] = 46
       THEN LET fe == DigitsEnd(txt, en + 1) IN
            IF fe = en + 1 THEN PFail
            ELSE PRes(JNumber(Float(sign, mag, StripZeros(DigitsOf(txt, en + 1, fe)))), fe)
       ELSE IF ~sign
       THEN IF MagLeq(mag, U64Max) THEN PRes(JNumber(PosInt(mag)), en)
            ELSE PRes(JNumber(Float(FALSE, mag, <<>>)), en)
       ELSE IF mag = <<0>> THEN PRes(JNumber(Float(TRUE, mag, <<>>)), en)
       ELSE IF MagLeq(mag, I64MinMag) THEN PRes(JNumber(NegInt(mag)), en)
       ELSE PRes(JNumber(Float(TRUE, mag, <<>>)), en)

RECURSIVE ParseValue(_, _)
RECURSIVE ParseItems(_, _, _)
RECURSIVE ParseEntries(_, _, _)

\* after '[' or ',' : an element, then ',' or ']'
ParseItems(txt, i, acc) ==
    LET e == ParseValue(txt, i) IN
    IF ~e.ok THEN PFail
    ELSE LET j == SkipWs(txt, e.pos) IN
         IF j > Len(txt) THEN PFail
         ELSE IF txt[j] = 44 THEN ParseItems(txt, j + 1, Append(acc, e.v))
         ELSE IF txt[j] = 93 THEN PRes(JArray(Append(acc, e.v)), j + 1)
         ELSE PFail

\* after '{' or ',' : "key" ':' value, then ',' or '}'
ParseEntries(txt, i, acc) ==
    LET k0 == SkipWs(txt, i) IN
    IF k0 > Len(txt) \/ txt[k0] # 34 THEN PFail
    ELSE LET key == ParseChars(txt, k0 + 1, <<>>) IN
         IF ~key.ok THEN PFail
         ELSE LET c == SkipWs(txt, key.pos) IN
              IF c > Len(txt) \/ txt[c] # 58 THEN PFail
              ELSE LET val == ParseValue(txt, c + 1) IN
                   IF ~val.ok THEN PFail
                   ELSE LET j == SkipWs(txt, val.pos) IN
                        IF j > Len(txt) THEN PFail
                        ELSE IF txt[j] = 44
                        THEN ParseEntries(txt, j + 1, Append(acc, <<key.v, val.v>>))
                        ELSE IF txt[j] = 125
                        THEN PRes(JObject(Append(acc, <<key.v, val.v>>)), j + 1)
                        ELSE PFail

ParseValue(txt, i0) ==
    LET i == SkipWs(txt, i0) IN
    IF i > Len(txt) THEN PFail
    ELSE IF StartsWith(txt, i, <<110, 117, 108, 108>>) THEN PRes(JNull, i + 4)
    ELSE IF StartsWith(txt, i, <<116, 114, 117, 101>>) THEN PRes(JBool(TRUE), i + 4)
    ELSE IF StartsWith(txt, i, <<102, 97, 108, 115, 101>>) THEN PRes(JBool(FALSE), i + 5)
    ELSE IF txt[i] = 34
    THEN LET r == ParseChars(txt, i + 1, <<>>) IN
         IF r.ok THEN PRes(JString(r.v), r.pos) ELSE PFail
    ELSE IF txt[i] = 45 \/ IsDigit(txt[i]) THEN ParseNumber(txt, i)
    ELSE IF txt[i] = 91
    THEN LET j == SkipWs(txt, i + 1) IN
         IF j <= Len(txt) /\ txt[j] = 93 THEN PRes(JArray(<<>>), j + 1)
         ELSE ParseItems(txt, j, <<>>)
    ELSE IF txt[i] = 123
    THEN LET j == SkipWs(txt, i + 1) IN
         IF j <= Len(txt) /\ txt[j] = 125 THEN PRes(JObject(<<>>), j + 1)
         ELSE ParseEntries(txt, j, <<>>)
    ELSE PFail

\* a whole text: one value and nothing but whitespace after it
ParseText(txt) ==
    LET r == ParseValue(txt, 1) IN
    IF r.ok /\ SkipWs(txt, r.pos) = Len(txt) + 1 THEN r ELSE PFail

(***************************************************************************)
(* JsonValue::deserialize : builds the generic tree from the document.     *)
(* serde_json::Map::insert replaces the value of a key already present;    *)
(* the map is held in insertion order (serde_json's preserve_order), of    *)
(* which the default key-ordered map is the case of a sorted document.     *)
(***************************************************************************)
MapInsert(m, key, val) ==
    IF \E i \in 1..Len(m) : m[i][1] = key
    THEN [i \in 1..Len(m) |-> IF m[i][1] = key THEN <<key, val>> ELSE m[i]]
    ELSE Append(m, <<key, val>>)

RECURSIVE ValueFromDoc(_)
RECURSIVE MapFromEntries(_, _)

MapFromEntries(entries, acc) ==
    IF entries = <<>> THEN acc
    ELSE MapFromEntries(Tail(entries),
             MapInsert(acc, Head(entries)[1], ValueFromDoc(Head(entries)[2])))

ValueFromDoc(d) ==
    IF d.t = "Array"
    THEN JArray([i \in 1..Len(d.items) |-> ValueFromDoc(d.items[i])])
    ELSE IF d.t = "Object" THEN JObject(MapFromEntries(d.entries, <<>>))
    ELSE d

\* Deserialize for CanonicalJsonValue, reading JSON text
deserialize(txt) ==
    LET r == ParseText(txt) IN
    IF ~r.ok THEN ConvErr("Syntax")
    ELSE try_from(ValueFromDoc(r.v))

(***************************************************************************)
(* Source documents.                                                       *)
(***************************************************************************)
KeyA == <<97>>                       \* "a"
KeyB == <<98>>                       \* "b"
KeyAB == <<97, 98>>                  \* "ab"

One == JNumber(PosInt(<<1>>))
Two == JNumber(PosInt(<<2>>))
OneAndHalf == JNumber(Float(FALSE, <<1>>, <<5>>))
OnePointZero == JNumber(Float(FALSE, <<1>>, <<>>))
MinusZero == JNumber(Float(TRUE, <<0>>, <<>>))

Numbers ==
    { PosInt(<<0>>), PosInt(<<1>>), PosInt(<<2>>), PosInt(<<4, 2>>),
      PosInt(MaxSafeInt),
      PosInt(<<9,0,0,7,1,9,9,2,5,4,7,4,0,9,9,2>>),       \* 2^53
      PosInt(I64Max), PosInt(I64MinMag), PosInt(U64Max),
      NegInt(<<1>>), NegInt(<<4, 2>>), NegInt(MaxSafeInt),
      NegInt(<<9,0,0,7,1,9,9,2,5,4,7,4,0,9,9,2>>),       \* -(2^53)
      NegInt(I64MinMag),
      Float(FALSE, <<1>>, <<5>>),                        \* 1.5
      Float(TRUE, <<0>>, <<5>>),                         \* -0.5
      Float(FALSE, <<1>>, <<>>),                         \* 1.0
      Float(TRUE, <<0>>, <<>>),                          \* -0.0
      Float(FALSE, <<1,8,4,4,6,7,4,4,0,7,3,7,0,9,5,5,1,6,1,6>>, <<>>) }  \* 2^64

Strings ==
    { <<>>, KeyA, KeyB,
      <<97, 32, 98>>,                \* "a b"
      <<97, 34, 98>>,                \* a"b
      <<92>>,                        \* a backslash
      <<97, 10>>,                    \* "a" and a newline
      <<58, 44, 123>>,               \* ":,{"
      EAcute,
      <<76, 111, 110, 100, 111, 110>> }   \* "London"

Scalars ==
    {JNull, JBool(TRUE), JBool(FALSE)}
    \cup {JNumber(n) : n \in Numbers}
    \cup {JString(x) : x \in Strings}

\* values placed inside containers
Elems == {One, Two, OneAndHalf}

\* {"city":"London","street":"10 Downing Street"} and {"b":1,"a":2}
CityDoc ==
    JObject(<< <<(<<99, 105, 116, 121>>), JString(<<76, 111, 110, 100, 111, 110>>)>>,
               <<(<<115, 116, 114, 101, 101, 116>>),
                 JString(<<49, 48, 32, 68, 111, 119, 110, 105, 110, 103, 32,
                           83, 116, 114, 101, 101, 116>>)>> >>)
BADoc == JObject(<< <<KeyB, One>>, <<KeyA, Two>> >>)

\* entries placed inside objects: three keys, one of them with two values
Entries == { <<KeyA, One>>, <<KeyB, Two>>, <<KeyAB, OneAndHalf>>, <<KeyA, OneAndHalf>> }

Flat ==
    UNION { {JArray(f) : f \in [1..n -> Elems]} : n \in 0..MaxLen }
    \cup UNION { {JObject(f) : f \in [1..n -> Entries]} : n \in 0..MaxLen }

\* one more level of nesting around x
Wrap(x) ==
    { JArray(<<x>>),
      JArray(<<JString(<<97, 32, 98>>), x>>),
      JArray(<<x, OnePointZero>>),
      JObject(<< <<KeyB, x>> >>),
      JObject(<< <<KeyB, One>>, <<KeyA, x>> >>),
      JObject(<< <<KeyA, x>>, <<KeyA, JBool(TRUE)>> >>),
      JObject(<< <<KeyAB, JNull>>, <<KeyA, OneAndHalf>>, <<KeyA, x>> >>) }

RECURSIVE DocsAt(_)
DocsAt(d) == IF d = 1 THEN Flat ELSE UNION {Wrap(x) : x \in DocsAt(d - 1)}

Docs == Scalars \cup {CityDoc, BADoc} \cup UNION {DocsAt(d) : d \in 1..MaxDepth}

(***************************************************************************)
(* The callers.                                                            *)
(***************************************************************************)
NoConv == [ok |-> FALSE, v |-> JNull, err |-> "NotCalled"]

IdleValidate ==
    /\ s = <<>> /\ other = <<>> /\ result = NotCalled /\ result2 = NotCalled
IdleJson ==
    /\ doc = JNull /\ json = JNull /\ canon = NoConv /\ text = <<>> /\ back = NoConv

\* a caller holding two identifiers that share everything up to the first ':'
InitValidate ==
    /\ pc = "call"
    /\ \E p \in Inputs, t1 \in Tails, t2 \in Tails :
          /\ s = p \o (IF HasColon(p) THEN t1 ELSE <<>>)
          /\ other = p \o (IF HasColon(p) THEN t2 ELSE <<>>)
    /\ result = NotCalled
    /\ result2 = NotCalled
    /\ IdleJson

Validate ==
    /\ pc = "call"
    /\ result' = validate(s)
    /\ pc' = "second"
    /\ UNCHANGED <<s, other, result2, doc, json, canon, text, back>>

ValidateOther ==
    /\ pc = "second"
    /\ result2' = validate(other)
    /\ pc' = "done"
    /\ UNCHANGED <<s, other, result, doc, json, canon, text, back>>

NextValidate == Validate \/ ValidateOther

SpecValidate == InitValidate /\ [][NextValidate]_vars

InitJson ==
    /\ pc = "doc"
    /\ doc \in Docs
    /\ json = JNull
    /\ canon = NoConv
    /\ text = <<>>
    /\ back = NoConv
    /\ IdleValidate

\* the generic tree is built from the document
FromDoc ==
    /\ pc = "doc"
    /\ json' = ValueFromDoc(doc)
    /\ pc' = "json"
    /\ UNCHANGED <<doc, canon, text, back, s, other, result, result2>>

TryFrom ==
    /\ pc = "json"
    /\ canon' = try_from(json)
    /\ pc' = "converted"
    /\ UNCHANGED <<doc, json, text, back, s, other, result, result2>>

Display ==
    /\ pc = "converted"
    /\ canon.ok
    /\ text' = fmt(canon.v)
    /\ pc' = "rendered"
    /\ UNCHANGED <<doc, json, canon, back, s, other, result, result2>>

Deserialize ==
    /\ pc = "rendered"
    /\ back' = deserialize(text)
    /\ pc' = "done"
    /\ UNCHANGED <<doc, json, canon, text, s, other, result, result2>>

NextJson == FromDoc \/ TryFrom \/ Display \/ Deserialize

SpecJson == InitJson /\ [][NextJson]_vars

(***************************************************************************)
(* Properties of validate (checked under SpecValidate).                    *)
(***************************************************************************)
Validated == pc \in {"second", "done"}

\* the algorithm name of str: everything before its first ':'
NameOf(str) == SubSeq(str, 1, FirstColon(str))

\* C1: when validate(s) succeeds with offset n, n is the byte index of the
\* first ':' of s, 1 <= n <= 255, and s[0..n] is a recognized algorithm name
\* (also for strings whose first ':' lies at offset 256 or beyond).
C1_OffsetIsFirstColon ==
    (Validated /\ result.kind = "Ok") =>
        /\ HasColon(s)
        /\ result.offset = FirstColon(s)
        /\ result.offset \in 1..255
        /\ SubSeq(s, 1, result.offset) \in RecognizedNames

\* C2: when s has a ':' and the text before the first ':' is empty or not a
\* recognized name, validate(s) fails with UnknownKeyAlgorithm, wherever the
\* first ':' is.
C2_UnknownAlgorithmRejected ==
    (Validated /\ HasColon(s) /\ NameOf(s) \notin RecognizedNames) =>
        result = Err("UnknownKeyAlgorithm")

\* C3: validate(s) fails with MissingKeyDelimiter exactly when s has no ':';
\* a string without ':' never yields UnknownKeyAlgorithm and a string with
\* ':' never yields MissingKeyDelimiter.
C3_MissingDelimiterIff ==
    /\ Validated =>
          /\ (result.kind = "MissingKeyDelimiter") <=> ~HasColon(s)
          /\ ~HasColon(s) => result.kind # "UnknownKeyAlgorithm"
    /\ pc = "done" =>
          /\ (result2.kind = "MissingKeyDelimiter") <=> ~HasColon(other)
          /\ ~HasColon(other) => result2.kind # "UnknownKeyAlgorithm"

\* C3 witness: a long string without ':' was rejected as MissingKeyDelimiter.
C3_Witness ==
    /\ pc = "done"
    /\ ~HasColon(s)
    /\ Len(s) > U8Mod
    /\ result = Err("MissingKeyDelimiter")

\* C4: validate never panics: it returns an offset or one of the two error
\* kinds, for every string, multi-byte characters and any colon position
\* included (the slice before the lookup ends on a character boundary).
C4_NeverPanics ==
    Validated =>
        result.kind \in {"Ok", "MissingKeyDelimiter", "UnknownKeyAlgorithm"}

\* C10: two strings that agree up to and including the first ':' get the same
\* result, and an empty key id after a recognized name is accepted.
C10_OnlyPrefixMatters ==
    pc = "done" =>
        /\ UpToColon(s) = UpToColon(other) => result = result2
        /\ (HasColon(s) /\ NameOf(s) \in RecognizedNames /\ s = UpToColon(s))
              => result.kind = "Ok"

\* C10 witness: "ed25519:" with an empty key id and "ed25519:" followed by a
\* key id were both validated and both accepted.
C10_Witness ==
    /\ pc = "done"
    /\ s = Ed25519 \o <<Colon>>
    /\ other # s
    /\ UpToColon(other) = s
    /\ result.kind = "Ok"
    /\ result2 = result

(***************************************************************************)
(* Properties of CanonicalJsonValue (checked under SpecJson).              *)
(***************************************************************************)
Converted == pc \in {"converted", "rendered", "done"}
Rendered == pc \in {"rendered", "done"}

\* the number's value is an integer in [-(2^53 - 1), 2^53 - 1]
SafeIntegerValue(n) == n.frac = <<>> /\ MagLeq(n.int, MaxSafeInt)

\* the number is held as an integer (u64 / i64) and lies in the safe range
SafeIntegerNumber(n) == n.k \in {"PosInt", "NegInt"} /\ MagLeq(n.int, MaxSafeInt)

RECURSIVE NumberNodes(_)
\* the number nodes of a generic tree, at every depth
NumberNodes(j) ==
    IF j.t = "Number" THEN {j.n}
    ELSE IF j.t = "Array"
    THEN UNION {NumberNodes(j.items[i]) : i \in 1..Len(j.items)}
    ELSE IF j.t = "Object"
    THEN UNION {NumberNodes(j.entries[i][2]) : i \in 1..Len(j.entries)}
    ELSE {}

\* C5 as stated: a number node converts exactly when its value is an integer
\* in the safe range, then to Integer of the same value; every other number
\* fails with the integer-conversion error.
C5_Original ==
    (Converted /\ json.t = "Number") =>
        /\ canon.ok <=> SafeIntegerValue(json.n)
        /\ canon.ok => canon.v = CInteger(json.n.neg, json.n.int)
        /\ ~canon.ok => canon.err = "IntConvert"

\* C5 (amended): a number node converts exactly when it is held as an integer
\* (not as a float) and lies in the safe range, then to Integer of the same
\* value; every float, 1.0 and -0 included, and every integer outside the
\* range fails with the integer-conversion error.
C5_NumberConversion ==
    (Converted /\ json.t = "Number") =>
        /\ canon.ok <=> SafeIntegerNumber(json.n)
        /\ canon.ok => canon.v = CInteger(json.n.neg, json.n.int)
        /\ ~canon.ok => canon.err = "IntConvert"

\* C5 witness: 42 was converted to Integer(42).
C5_Witness ==
    /\ pc = "converted"
    /\ json = JNumber(PosInt(<<4, 2>>))
    /\ canon = ConvOk(CInteger(FALSE, <<4, 2>>))

\* C6 as stated: try_from fails with the integer-conversion error exactly
\* when some number node, at any depth, is not an integer of the safe range;
\* a failure returns no value.
C6_Original ==
    Converted =>
        /\ ~canon.ok <=> (\E n \in NumberNodes(json) : ~SafeIntegerValue(n))
        /\ ~canon.ok => canon = ConvErr("IntConvert")

\* C6 (amended): try_from fails with the integer-conversion error exactly
\* when some number node, at any depth, is held as a float or is an integer
\* outside the safe range; a failure returns no value.
C6_AtomicConversion ==
    Converted =>
        /\ ~canon.ok <=> (\E n \in NumberNodes(json) : ~SafeIntegerNumber(n))
        /\ ~canon.ok => canon = ConvErr("IntConvert")

\* C6 witness: the only bad number sits two containers deep and the whole
\* conversion failed.
C6_Witness ==
    /\ pc = "converted"
    /\ json = JObject(<< <<KeyB, One>>, <<KeyA, JArray(<<Two, OneAndHalf>>)>> >>)
    /\ canon = ConvErr("IntConvert")

RECURSIVE KeysAscending(_)
\* every object of a document lists its keys in strictly ascending order
KeysAscending(d) ==
    IF d.t = "Array"
    THEN \A i \in 1..Len(d.items) : KeysAscending(d.items[i])
    ELSE IF d.t = "Object"
    THEN /\ \A i \in 1..(Len(d.entries) - 1) :
               LexLess(d.entries[i][1], d.entries[i + 1][1])
         /\ \A i \in 1..Len(d.entries) : KeysAscending(d.entries[i][2])
    ELSE TRUE

RECURSIVE NoWsOutsideStrings(_, _, _)
\* no whitespace byte of txt lies outside a string literal
NoWsOutsideStrings(txt, i, inStr) ==
    IF i > Len(txt) THEN ~inStr
    ELSE IF inStr
    THEN IF txt[i] = 92 THEN NoWsOutsideStrings(txt, i + 2, TRUE)
         ELSE NoWsOutsideStrings(txt, i + 1, txt[i] # 34)
    ELSE /\ ~IsWs(txt[i])
         /\ NoWsOutsideStrings(txt, i + 1, txt[i] = 34)

\* {"a":2,"b":1}
ABText == <<123, 34, 97, 34, 58, 50, 44, 34, 98, 34, 58, 49, 125>>

\* {"city":"London","street":"10 Downing Street"}
CityText ==
    <<123, 34, 99, 105, 116, 121, 34, 58, 34, 76, 111, 110, 100, 111, 110, 34,
      44, 34, 115, 116, 114, 101, 101, 116, 34, 58, 34, 49, 48, 32, 68, 111,
      119, 110, 105, 110, 103, 32, 83, 116, 114, 101, 101, 116, 34, 125>>

\* C7: the rendered text lists the entries of every object, at every depth,
\* in strictly ascending byte order of their keys whatever the order of the
\* source, with bare ',' and ':' and no whitespace outside strings;
\* {"b":1,"a":2} renders as {"a":2,"b":1}.
C7_SortedCompactRendering ==
    Rendered =>
        /\ ParseText(text).ok
        /\ KeysAscending(ParseText(text).v)
        /\ NoWsOutsideStrings(text, 1, FALSE)
        /\ doc = BADoc => text = ABText
        /\ doc = CityDoc => text = CityText

\* C7 witness: a document with unsorted keys at two depths was rendered.
C7_Witness ==
    /\ pc = "rendered"
    /\ doc = JObject(<< <<KeyB, One>>,
                        <<KeyA, JObject(<< <<KeyB, Two>>, <<KeyA, One>> >>)>> >>)
    /\ Len(text) > 0

\* C8: reading the rendered text back and converting it succeeds and yields
\* the value that was rendered, which renders to the same text.
C8_RoundTrip ==
    pc = "done" =>
        /\ back.ok
        /\ back.v = canon.v
        /\ fmt(back.v) = text

\* C8 witness: an object holding a string with a quote went through the
\* round trip.
C8_Witness ==
    /\ pc = "done"
    /\ back.ok
    /\ \/ canon.v = JString(<<97, 34, 98>>)
       \/ /\ canon.v.t = "Object"
          /\ Len(canon.v.entries) = 2

\* the value of the last entry of entries with this key
LastValue(entries, key) ==
    entries[CHOOSE i \in 1..Len(entries) :
                /\ entries[i][1] = key
                /\ \A j \in (i + 1)..Len(entries) : entries[j][1] # key][2]

RECURSIVE SameShape(_, _)
\* canonical value c has the shape of source d
SameShape(d, c) ==
    IF d.t = "Null" THEN c = JNull
    ELSE IF d.t = "Bool" THEN c = JBool(d.b)
    ELSE IF d.t = "String" THEN c = JString(d.str)
    ELSE IF d.t = "Number" THEN c = CInteger(d.n.neg, d.n.int)
    ELSE IF d.t = "Array"
    THEN /\ c.t = "Array"
         /\ Len(c.items) = Len(d.items)
         /\ \A i \in 1..Len(d.items) : SameShape(d.items[i], c.items[i])
    ELSE /\ c.t = "Object"
         /\ {c.entries[i][1] : i \in 1..Len(c.entries)}
               = {d.entries[i][1] : i \in 1..Len(d.entries)}
         /\ Len(c.entries) = Cardinality({d.entries[i][1] : i \in 1..Len(d.entries)})
         /\ \A i \in 1..Len(c.entries) :
               SameShape(LastValue(d.entries, c.entries[i][1]), c.entries[i][2])

RECURSIVE SameArrays(_, _)
\* the arrays of rendered document r list the elements of c in c's order
SameArrays(r, c) ==
    IF c.t = "Array"
    THEN /\ r.t = "Array"
         /\ Len(r.items) = Len(c.items)
         /\ \A i \in 1..Len(c.items) : SameArrays(r.items[i], c.items[i])
    ELSE IF c.t = "Object"
    THEN /\ r.t = "Object"
         /\ Len(r.entries) = Len(c.entries)
         /\ \A i \in 1..Len(c.entries) : SameArrays(r.entries[i][2], c.entries[i][2])
    ELSE IF c.t = "Integer" THEN r = JNumber(IF c.neg THEN NegInt(c.mag) ELSE PosInt(c.mag))
    ELSE r = c

\* C9: a successful conversion keeps the shape of the source: null, booleans
\* and strings unchanged, arrays of the same length and order (also in the
\* rendered text), objects with the source's distinct keys, each bound to the
\* conversion of the source's last value for that key.
C9_ShapePreserved ==
    /\ (Converted /\ canon.ok) => (SameShape(doc, canon.v) /\ SameShape(json, canon.v))
    /\ Rendered => (ParseText(text).ok /\ SameArrays(ParseText(text).v, canon.v))

\* C9 witness: a document with a repeated key and a two-element array was
\* converted.
C9_Witness ==
    /\ pc = "converted"
    /\ canon.ok
    /\ doc = JObject(<< <<KeyA, JArray(<<One, Two>>)>>, <<KeyA, JBool(TRUE)>> >>)
    /\ canon.v = JObject(<< <<KeyA, JBool(TRUE)>> >>)

====
